---- MODULE Spec2Model ----
(***************************************************************************)
(* GLB animation analyzer (src/analyze_glb_animations.py, report mode) and *)
(* exporter (src/export_animations_json.py, export mode).                  *)
(*                                                                         *)
(* Python values are represented as follows.                               *)
(*   - an optional value (None or v) is the set {} or {v};                 *)
(*   - a list is a sequence, a "list or None" is an optional sequence;     *)
(*   - a str is a TLA+ string;                                             *)
(*   - a float time value is an integer number of tenths of a second      *)
(*     (so 1.0 is 10 and 5.0 is 50);                                       *)
(*   - a call that may raise returns a record with a field "raised", an    *)
(*     optional exception message.                                         *)
(***************************************************************************)
EXTENDS Integers, Sequences, FiniteSets, TLC

VARIABLES
    script,      \* which script's main() runs: "report" or "export"
    pc,          \* position of main(): "start", "loop", "output", "done", "exit1"
    idx,         \* 1-based position of the for loop in glb_files
    disk,        \* disk[k]: what the run found on disk for glb_files[k]
    results,     \* report: the list results; export: the dict results, in insertion order
    output,      \* what the run wrote: the console report, or the JSON document
    gltf_in,     \* extractor runs: the file content handed to both extractors
    rep_out,     \* extractor runs: return value of the report script's extractor
    exp_out,     \* extractor runs: return value of the export script's extractor
    name_in,     \* classifier runs: argument name
    duration_in, \* classifier runs: argument duration
    purpose_out  \* classifier runs: returned label

vars == <<script, pc, idx, disk, results, output,
          gltf_in, rep_out, exp_out, name_in, duration_in, purpose_out>>

mainVars == <<script, pc, idx, disk, results, output>>
extractVars == <<gltf_in, rep_out, exp_out>>
purposeVars == <<name_in, duration_in, purpose_out>>

-----------------------------------------------------------------------------
(* Bounds of the model.                                                    *)

NumFiles == 2        \* how many entries of the hard-coded list a run covers
MaxClips == 2        \* animations per file in the runs of main()
MaxChannels == 2     \* channels per animation handed to the extractors
MaxTokens == 2       \* name fragments per classified name

-----------------------------------------------------------------------------
(* Python semantics shared by both scripts.                                *)

None == {}
Some(v) == {v}
Get(o) == CHOOSE v \in o : TRUE

\* bool(x) of a "list or None" or a "str or None": None and empty are falsy
Truthy(o) == o # None /\ Len(Get(o)) > 0

\* seq[k] for a Python list: negative k counts from the end
PyInRange(seq, k) == -Len(seq) <= k /\ k < Len(seq)
PyIndex(seq, k) == IF k >= 0 THEN seq[k + 1] ELSE seq[Len(seq) + k + 1]
IndexError == "list index out of range"

\* a variant that keeps the latest value instead of the larger one
PyMaxLatest(a, b) == b

\* max(a, b) of two numbers
PyMax(a, b) == IF b > a THEN b ELSE a

\* list(s) of a Python set s: the elements once each, in some order
RECURSIVE SetToList(_)
SetToList(S) ==
    IF S = {} THEN <<>>
    ELSE LET x == CHOOSE y \in S : TRUE IN <<x>> \o SetToList(S \ {x})

\* set(l) of a Python list l
ListToSet(l) == {l[k] : k \in 1..Len(l)}

\* str.rfind(ch): the last 1-based position of the character, 0 if none
LastIndexOf(s, ch) ==
    LET hits == {k \in 1..Len(s) : SubSeq(s, k, k) = ch}
    IN IF hits = {} THEN 0 ELSE CHOOSE k \in hits : \A j \in hits : j <= k

\* Path(p).name: the text after the last "/"
PathName(p) == SubSeq(p, LastIndexOf(p, "/") + 1, Len(p))

\* Path(p).stem: the name without its last suffix
PathStem(p) ==
    LET n == PathName(p)
        dot == LastIndexOf(n, ".")
    IN IF dot > 1 THEN SubSeq(n, 1, dot - 1) ELSE n

-----------------------------------------------------------------------------
(* analyze_glb_animations of src/analyze_glb_animations.py (report mode).  *)

\* lines 24-30: the result dict as first built
ReportNewResult(file_path) ==
    [file_path |-> file_path, file_name |-> PathName(file_path),
     animations |-> <<>>, total_animations |-> 0, error |-> None]

\* a variant that keeps the dict built so far and only sets its error
ReportExceptPartial(file_path, result, e) == [result EXCEPT !.error = Some(e)]

\* lines 84-91: the except clause; result is the dict built so far, not used
ReportExcept(file_path, result, e) ==
    [file_path |-> file_path, file_name |-> PathName(file_path),
     animations |-> <<>>, total_animations |-> 0, error |-> Some(e)]

\* lines 65-74: fold the channel's input-accessor maximum into max_time
ReportSamplerTime(animation, accessors, channel, max_time) ==
    IF channel.sampler # None
          /\ Get(channel.sampler) < Len(Get(animation.samplers))
    THEN IF ~PyInRange(Get(animation.samplers), Get(channel.sampler))
         THEN [raised |-> Some(IndexError), max_time |-> max_time]
         ELSE LET sampler == PyIndex(Get(animation.samplers), Get(channel.sampler))
              IN IF sampler.input # None /\ Get(sampler.input) < Len(accessors)
                 THEN IF ~PyInRange(accessors, Get(sampler.input))
                      THEN [raised |-> Some(IndexError), max_time |-> max_time]
                      ELSE LET input_accessor == PyIndex(accessors, Get(sampler.input))
                           IN IF Truthy(input_accessor.max)
                                    /\ Len(Get(input_accessor.max)) > 0
                              THEN [raised |-> None,
                                    max_time |-> PyMax(max_time, Get(input_accessor.max)[1])]
                              ELSE [raised |-> None, max_time |-> max_time]
                 ELSE [raised |-> None, max_time |-> max_time]
    ELSE [raised |-> None, max_time |-> max_time]

\* lines 55-74: the loop over animation.channels from channel k on; st holds
\* max_time, anim_info['target_nodes'] (a list) and anim_info['animation_types'] (a set)
RECURSIVE ReportChannelLoop(_, _, _, _)
ReportChannelLoop(animation, accessors, k, st) ==
    IF st.raised # None \/ k > Len(Get(animation.channels)) THEN st
    ELSE LET channel == Get(animation.channels)[k]
             nodes == IF channel.target # None /\ Get(channel.target).node # None
                      THEN Append(st.target_nodes, Get(Get(channel.target).node))
                      ELSE st.target_nodes
             types == IF channel.target # None /\ Truthy(Get(channel.target).path)
                      THEN st.animation_types \cup {Get(Get(channel.target).path)}
                      ELSE st.animation_types
             t == ReportSamplerTime(animation, accessors, channel, st.max_time)
         IN ReportChannelLoop(animation, accessors, k + 1,
                [raised |-> t.raised, max_time |-> t.max_time,
                 target_nodes |-> nodes, animation_types |-> types])

\* line 76: zero and negative running maxima are reported as None
ReportDuration(max_time) == IF max_time > 0 THEN Some(max_time) ELSE None

\* a variant that returns the list as collected, without the set conversion
ReportTargetNodesRaw(target_nodes) == target_nodes

\* line 78: list(set(anim_info['target_nodes']))
ReportTargetNodes(target_nodes) == SetToList(ListToSet(target_nodes))

\* line 43: the clip's name, or Animation_<i>
ReportName(i, animation) ==
    IF Truthy(animation.name) THEN Get(animation.name) ELSE "Animation_" \o ToString(i)

\* lines 41-78: the anim_info of clip i (0-based), or the exception raised on the way.
\* When the branch of line 52 is not taken animation_types stays an empty set and
\* target_nodes an empty list: both are the empty sequence here.
ReportAnimInfo(i, animation, accessors) ==
    LET base == [index |-> i,
                 name |-> ReportName(i, animation),
                 channels |-> IF Truthy(animation.channels)
                              THEN Len(Get(animation.channels)) ELSE 0,
                 samplers |-> IF Truthy(animation.samplers)
                              THEN Len(Get(animation.samplers)) ELSE 0,
                 duration |-> None,
                 target_nodes |-> <<>>,
                 animation_types |-> <<>>]
    IN IF Truthy(animation.channels) /\ Truthy(animation.samplers)
       THEN LET st == ReportChannelLoop(animation, accessors, 1,
                         [raised |-> None, max_time |-> 0,
                          target_nodes |-> <<>>, animation_types |-> {}])
            IN [raised |-> st.raised,
                anim_info |-> [base EXCEPT
                    !.duration = ReportDuration(st.max_time),
                    !.animation_types = SetToList(st.animation_types),
                    !.target_nodes = ReportTargetNodes(st.target_nodes)]]
       ELSE [raised |-> None, anim_info |-> base]

\* lines 40-80: the loop over gltf.animations from clip i (0-based) on
RECURSIVE ReportClipLoop(_, _, _, _)
ReportClipLoop(file_path, gltf, i, result) ==
    IF i >= Len(gltf.animations) THEN result
    ELSE LET a == ReportAnimInfo(i, gltf.animations[i + 1], gltf.accessors)
         IN IF a.raised # None
            THEN ReportExcept(file_path, result, Get(a.raised))
            ELSE ReportClipLoop(file_path, gltf, i + 1,
                    [result EXCEPT !.animations = Append(@, a.anim_info)])

\* lines 16-91: analyze_glb_animations(file_path), where file is what GLTF2.load finds
report_analyze_glb_animations(file_path, file) ==
    IF file.load_error # None
    THEN ReportExcept(file_path, ReportNewResult(file_path), Get(file.load_error))
    ELSE LET result == ReportNewResult(file_path)
         IN IF Len(file.gltf.animations) = 0
            THEN [result EXCEPT !.total_animations = 0]
            ELSE ReportClipLoop(file_path, file.gltf, 0,
                    [result EXCEPT !.total_animations = Len(file.gltf.animations)])

-----------------------------------------------------------------------------
(* analyze_glb_animations of src/export_animations_json.py (export mode).  *)

\* lines 20-26
ExportNewResult(file_path) ==
    [file_path |-> file_path, file_name |-> PathName(file_path),
     animations |-> <<>>, total_animations |-> 0, error |-> None]

\* lines 73-80
ExportExcept(file_path, result, e) ==
    [file_path |-> file_path, file_name |-> PathName(file_path),
     animations |-> <<>>, total_animations |-> 0, error |-> Some(e)]

\* lines 56-63
ExportSamplerTime(animation, accessors, channel, max_time) ==
    IF channel.sampler # None
          /\ Get(channel.sampler) < Len(Get(animation.samplers))
    THEN IF ~PyInRange(Get(animation.samplers), Get(channel.sampler))
         THEN [raised |-> Some(IndexError), max_time |-> max_time]
         ELSE LET sampler == PyIndex(Get(animation.samplers), Get(channel.sampler))
              IN IF sampler.input # None /\ Get(sampler.input) < Len(accessors)
                 THEN IF ~PyInRange(accessors, Get(sampler.input))
                      THEN [raised |-> Some(IndexError), max_time |-> max_time]
                      ELSE LET input_accessor == PyIndex(accessors, Get(sampler.input))
                           IN IF Truthy(input_accessor.max)
                                    /\ Len(Get(input_accessor.max)) > 0
                              THEN [raised |-> None,
                                    max_time |-> PyMax(max_time, Get(input_accessor.max)[1])]
                              ELSE [raised |-> None, max_time |-> max_time]
                 ELSE [raised |-> None, max_time |-> max_time]
    ELSE [raised |-> None, max_time |-> max_time]

\* lines 49-63: the loop over animation.channels from channel k on; st holds
\* max_time and the local sets target_nodes and animation_types
RECURSIVE ExportChannelLoop(_, _, _, _)
ExportChannelLoop(animation, accessors, k, st) ==
    IF st.raised # None \/ k > Len(Get(animation.channels)) THEN st
    ELSE LET channel == Get(animation.channels)[k]
             nodes == IF channel.target # None /\ Get(channel.target).node # None
                      THEN st.target_nodes \cup {Get(Get(channel.target).node)}
                      ELSE st.target_nodes
             types == IF channel.target # None /\ Truthy(Get(channel.target).path)
                      THEN st.animation_types \cup {Get(Get(channel.target).path)}
                      ELSE st.animation_types
             t == ExportSamplerTime(animation, accessors, channel, st.max_time)
         IN ExportChannelLoop(animation, accessors, k + 1,
                [raised |-> t.raised, max_time |-> t.max_time,
                 target_nodes |-> nodes, animation_types |-> types])

\* line 65
ExportDuration(max_time) == IF max_time > 0 THEN Some(max_time) ELSE None

\* line 67: list(target_nodes)
ExportTargetNodes(target_nodes) == SetToList(target_nodes)

\* a variant that numbers unnamed clips from 1
ExportNameOneBased(i, animation) ==
    IF Truthy(animation.name) THEN Get(animation.name) ELSE "Animation_" \o ToString(i + 1)

\* line 36
ExportName(i, animation) ==
    IF Truthy(animation.name) THEN Get(animation.name) ELSE "Animation_" \o ToString(i)

\* lines 34-67
ExportAnimInfo(i, animation, accessors) ==
    LET base == [index |-> i,
                 name |-> ExportName(i, animation),
                 channels |-> IF Truthy(animation.channels)
                              THEN Len(Get(animation.channels)) ELSE 0,
                 samplers |-> IF Truthy(animation.samplers)
                              THEN Len(Get(animation.samplers)) ELSE 0,
                 duration |-> None,
                 target_nodes |-> <<>>,
                 animation_types |-> <<>>]
    IN IF Truthy(animation.channels) /\ Truthy(animation.samplers)
       THEN LET st == ExportChannelLoop(animation, accessors, 1,
                         [raised |-> None, max_time |-> 0,
                          target_nodes |-> {}, animation_types |-> {}])
            IN [raised |-> st.raised,
                anim_info |-> [base EXCEPT
                    !.duration = ExportDuration(st.max_time),
                    !.animation_types = SetToList(st.animation_types),
                    !.target_nodes = ExportTargetNodes(st.target_nodes)]]
       ELSE [raised |-> None, anim_info |-> base]

\* lines 33-69
RECURSIVE ExportClipLoop(_, _, _, _)
ExportClipLoop(file_path, gltf, i, result) ==
    IF i >= Len(gltf.animations) THEN result
    ELSE LET a == ExportAnimInfo(i, gltf.animations[i + 1], gltf.accessors)
         IN IF a.raised # None
            THEN ExportExcept(file_path, result, Get(a.raised))
            ELSE ExportClipLoop(file_path, gltf, i + 1,
                    [result EXCEPT !.animations = Append(@, a.anim_info)])

\* lines 15-80
export_analyze_glb_animations(file_path, file) ==
    IF file.load_error # None
    THEN ExportExcept(file_path, ExportNewResult(file_path), Get(file.load_error))
    ELSE LET result == ExportNewResult(file_path)
         IN IF Len(file.gltf.animations) = 0
            THEN result
            ELSE ExportClipLoop(file_path, file.gltf, 0,
                    [result EXCEPT !.total_animations = Len(file.gltf.animations)])

-----------------------------------------------------------------------------
(* guess_animation_purpose of src/analyze_glb_animations.py.               *)

UpperLetters == "ABCDEFGHIJKLMNOPQRSTUVWXYZ"
LowerLetters == "abcdefghijklmnopqrstuvwxyz"

\* str.lower() of the letters it changes
LowerOf ==
    [c \in {SubSeq(UpperLetters, k, k) : k \in 1..Len(UpperLetters)} |->
        LET k == CHOOSE j \in 1..Len(UpperLetters) : SubSeq(UpperLetters, j, j) = c
        IN SubSeq(LowerLetters, k, k)]

\* str.lower() of one character
LowerChar(c) == IF c \in DOMAIN LowerOf THEN LowerOf[c] ELSE c

\* str.lower()
RECURSIVE Lower(_)
Lower(s) ==
    IF Len(s) = 0 THEN ""
    ELSE LowerChar(SubSeq(s, 1, 1)) \o Lower(SubSeq(s, 2, Len(s)))

\* keyword in s
Contains(s, keyword) ==
    \E k \in 1..(Len(s) - Len(keyword) + 1) : SubSeq(s, k, k + Len(keyword) - 1) = keyword

\* any(keyword in name_lower for keyword in keywords)
AnyKeyword(name_lower, keywords) ==
    \E k \in 1..Len(keywords) : Contains(name_lower, keywords[k])

\* a variant that matches the keywords case-sensitively
NameAsIs(name) == name

\* line 97: name_lower = name.lower()
NameLower(name) == Lower(name)

\* the truth value of "duration": None and 0 are falsy
DurationTruthy(duration) == duration # None /\ Get(duration) # 0

\* lines 93-125
guess_animation_purpose(name, duration) ==
    LET name_lower == NameLower(name)
    IN IF AnyKeyword(name_lower, <<"idle", "rest", "stand", "default">>)
       THEN "Idle/Rest animation"
       ELSE IF AnyKeyword(name_lower, <<"walk", "run", "move", "locomotion">>)
       THEN "Movement animation"
       ELSE IF AnyKeyword(name_lower, <<"attack", "bite", "strike", "fight">>)
       THEN "Attack animation"
       ELSE IF AnyKeyword(name_lower, <<"death", "die", "dead">>)
       THEN "Death animation"
       ELSE IF AnyKeyword(name_lower, <<"jump", "leap", "hop">>)
       THEN "Jump animation"
       ELSE IF AnyKeyword(name_lower, <<"fly", "flight", "hover">>)
       THEN "Flying animation"
       ELSE IF AnyKeyword(name_lower, <<"eat", "feed">>)
       THEN "Eating animation"
       ELSE IF AnyKeyword(name_lower, <<"turn", "rotate">>)
       THEN "Turning animation"
       ELSE IF AnyKeyword(name_lower, <<"take_damage", "hit", "hurt">>)
       THEN "Damage/Hit animation"
       ELSE IF AnyKeyword(name_lower, <<"celebrate", "victory", "win">>)
       THEN "Victory/Celebration animation"
       ELSE IF DurationTruthy(duration) /\ Get(duration) < 10
       THEN "Short action/transition animation"
       ELSE IF DurationTruthy(duration) /\ Get(duration) > 50
       THEN "Long loop/ambient animation"
       ELSE "Unknown purpose"

-----------------------------------------------------------------------------
(* main() of both scripts.                                                 *)

\* analyze_glb_animations.py lines 129-136, export_animations_json.py lines 83-90
all_glb_files == <<
    "/Users/ianjohnson/Desktop/code/Bug_Game/client/resources/bugs/bee/bee-v1.glb",
    "/Users/ianjohnson/Desktop/code/Bug_Game/client/resources/bugs/beetle/black_ox_beetle_small.glb",
    "/Users/ianjohnson/Desktop/code/Bug_Game/client/resources/bugs/ladybug/ladybug.glb",
    "/Users/ianjohnson/Desktop/code/Bug_Game/client/resources/bugs/scorpion/scorpion.glb",
    "/Users/ianjohnson/Desktop/code/Bug_Game/client/resources/bugs/spider/spider_small.glb",
    "/Users/ianjohnson/Desktop/code/Bug_Game/client/resources/bugs/wolf_spider/wolf_spider.glb" >>

\* the part of the list a run covers
glb_files ==
    SubSeq(all_glb_files, 1, IF NumFiles < Len(all_glb_files) THEN NumFiles ELSE Len(all_glb_files))

\* a variant whose message leaves the path out
MissingResultNoPath(file_path) ==
    [file_path |-> file_path, file_name |-> PathName(file_path),
     animations |-> <<>>, total_animations |-> 0,
     error |-> Some("File not found")]

\* analyze_glb_animations.py lines 142-148: the result recorded for a missing file
MissingResult(file_path) ==
    [file_path |-> file_path, file_name |-> PathName(file_path),
     animations |-> <<>>, total_animations |-> 0,
     error |-> Some("File not found: " \o file_path)]

\* a variant that steps over an entry
NextEntrySkips(i) == i + 2

\* the for loop's step to the next entry of glb_files
NextEntry(i) == i + 1

\* results[key] = value of a dict kept in insertion order
DictSet(d, key, value) ==
    IF \E k \in 1..Len(d) : d[k].key = key
    THEN [k \in 1..Len(d) |-> IF d[k].key = key THEN [key |-> key, value |-> value] ELSE d[k]]
    ELSE Append(d, [key |-> key, value |-> value])

\* ", ".join(names)
RECURSIVE Join(_)
Join(names) ==
    IF Len(names) = 0 THEN ""
    ELSE IF Len(names) = 1 THEN names[1]
    ELSE names[1] \o ", " \o Join(Tail(names))

\* s[:n]
Prefix(s, n) == SubSeq(s, 1, IF Len(s) < n THEN Len(s) ELSE n)

\* analyze_glb_animations.py lines 160-185: what the report shows for one file
ReportBlock(result) ==
    IF result.error # None /\ Len(Get(result.error)) > 0
    THEN [file |-> result.file_name, shown |-> "error", clips |-> <<>>]
    ELSE IF result.total_animations = 0
    THEN [file |-> result.file_name, shown |-> "none", clips |-> <<>>]
    ELSE [file |-> result.file_name, shown |-> "clips",
          clips |-> [k \in 1..Len(result.animations) |->
              LET anim == result.animations[k]
              IN [number |-> anim.index + 1,
                  name |-> anim.name,
                  duration |-> IF DurationTruthy(anim.duration) THEN anim.duration ELSE None,
                  channels |-> anim.channels,
                  types |-> IF Len(anim.animation_types) > 0
                            THEN Join(anim.animation_types) ELSE "None",
                  purpose |-> guess_animation_purpose(anim.name, anim.duration)]]]

\* analyze_glb_animations.py lines 194-207: one row of the summary table
SummaryRow(result) ==
    [file_name |-> Prefix(result.file_name, 24),
     anim_count |-> ToString(result.total_animations),
     anim_names |->
        IF result.error # None /\ Len(Get(result.error)) > 0 THEN "ERROR"
        ELSE IF result.total_animations = 0 THEN "None"
        ELSE LET anim_names == Join([k \in 1..Len(result.animations) |->
                                        result.animations[k].name])
             IN IF Len(anim_names) > 39 THEN Prefix(anim_names, 36) \o "..."
                ELSE anim_names]

-----------------------------------------------------------------------------
(* Inputs.                                                                 *)

SeqsUpTo(S, n) == UNION {[1..k -> S] : k \in 0..n}

Target(node, path) == Some([node |-> node, path |-> path])
Channel(target, sampler) == [target |-> target, sampler |-> sampler]
Sampler(input) == [input |-> input]
Accessor(max) == [max |-> max]

\* channels handed to the extractors: targets with and without node and path,
\* sampler indices absent, valid, too large and negative
ExtChannels ==
    { Channel(Target(Some(0), Some("rotation")), Some(0)),
      Channel(Target(Some(1), None), Some(1)),
      Channel(Target(None, Some("scale")), Some(-1)),
      Channel(None, None),
      Channel(Target(Some(0), Some("rotation")), Some(-2)),
      Channel(Target(Some(0), Some("scale")), Some(2)) }

\* sampler lists: absent, empty, and lists whose input accessors are valid,
\* absent, too large or negative
ExtSamplerLists ==
    { None,
      Some(<<>>),
      Some(<<Sampler(Some(0))>>),
      Some(<<Sampler(Some(0)), Sampler(Some(1))>>),
      Some(<<Sampler(Some(1)), Sampler(Some(0))>>),
      Some(<<Sampler(None), Sampler(Some(0))>>),
      Some(<<Sampler(Some(-1)), Sampler(Some(2))>>),
      Some(<<Sampler(Some(-3)), Sampler(Some(0))>>) }

\* accessor lists: maxima absent, 0.0, 0.5 and 2.0
ExtAccessorLists ==
    { <<>>,
      <<Accessor(Some(<<5>>))>>,
      <<Accessor(Some(<<0>>)), Accessor(Some(<<5>>))>>,
      <<Accessor(Some(<<5>>)), Accessor(Some(<<20>>))>>,
      <<Accessor(Some(<<20>>)), Accessor(Some(<<5>>))>>,
      <<Accessor(None), Accessor(Some(<<>>))>> }

ExtNames == {None, Some("Walk")}

ExtClips ==
    [name : ExtNames,
     channels : {None} \cup {Some(l) : l \in SeqsUpTo(ExtChannels, MaxChannels)},
     samplers : ExtSamplerLists]

Loaded(gltf) == [exists |-> TRUE, load_error |-> None, gltf |-> gltf]
NoGltf == [animations |-> <<>>, accessors |-> <<>>]
Missing == [exists |-> FALSE, load_error |-> None, gltf |-> NoGltf]
Corrupt == [exists |-> TRUE, load_error |-> Some("not a GLB file"), gltf |-> NoGltf]

\* files handed to the extractors alone: unreadable, without clips, or with one clip
ExtFiles ==
    {Corrupt}
    \cup {Loaded([animations |-> <<>>, accessors |-> acc]) : acc \in ExtAccessorLists}
    \cup {Loaded([animations |-> <<clip>>, accessors |-> acc]) :
            clip \in ExtClips, acc \in ExtAccessorLists}

\* clips of the files the runs of main() find: a clip of 2.0 seconds and a clip whose
\* channel indexes before the start of the sampler list
WalkClip ==
    [name |-> Some("Walk"),
     channels |-> Some(<<Channel(Target(Some(0), Some("rotation")), Some(0))>>),
     samplers |-> Some(<<Sampler(Some(0))>>)]
BadIndexClip ==
    [name |-> None,
     channels |-> Some(<<Channel(Target(Some(0), Some("rotation")), Some(-2))>>),
     samplers |-> Some(<<Sampler(Some(0))>>)]

MainClips == {WalkClip, BadIndexClip}

MainFiles ==
    {Missing, Corrupt}
    \cup {Loaded([animations |-> a, accessors |-> <<Accessor(Some(<<20>>))>>]) :
            a \in SeqsUpTo(MainClips, MaxClips)}

\* names handed to the classifier: up to MaxTokens fragments, joined
Tokens == {"Idle", "rest", "Stand", "Walk", "RUN", "attack", "Bite", "Death", "die",
           "jump", "leap", "fly", "Hover", "eat", "feed", "turn", "Rotate", "hit",
           "take_damage", "hurt", "win", "Victory", "de", "ad", "Custom_Clip", "_", "w"}

RECURSIVE Concat(_)
Concat(l) == IF Len(l) = 0 THEN "" ELSE l[1] \o Concat(Tail(l))

Names == {Concat(l) : l \in SeqsUpTo(Tokens, MaxTokens)}

\* durations in tenths of a second: absent, 0.0, 0.5, 1.0, 3.0, 5.0, 8.0
Durations == {None, Some(0), Some(5), Some(10), Some(30), Some(50), Some(80)}

-----------------------------------------------------------------------------
(* Runs of main(): Spec.                                                   *)

ExtractIdle == gltf_in = Missing /\ rep_out = None /\ exp_out = None
PurposeIdle == name_in = "" /\ duration_in = None /\ purpose_out = None
MainIdle ==
    script = "none" /\ pc = "idle" /\ idx = 0 /\ disk = <<>> /\ results = <<>> /\ output = None

Init ==
    /\ script \in {"report", "export"}
    /\ pc = "start"
    /\ idx = 1
    /\ disk = <<>>
    /\ results = <<>>
    /\ output = None
    /\ ExtractIdle
    /\ PurposeIdle

\* both scripts, lines 10-11 / 9-10: pygltflib is installed
ImportOk ==
    /\ pc = "start"
    /\ pc' = "loop"
    /\ UNCHANGED <<script, idx, disk, results, output, extractVars, purposeVars>>

\* both scripts, lines 12-14 / 11-13: pygltflib is absent, sys.exit(1)
ImportError ==
    /\ pc = "start"
    /\ pc' = "exit1"
    /\ UNCHANGED <<script, idx, disk, results, output, extractVars, purposeVars>>

\* analyze_glb_animations.py lines 140-149: the file does not exist
ReportMissing ==
    /\ script = "report" /\ pc = "loop" /\ idx <= Len(glb_files)
    /\ disk' = Append(disk, Missing)
    /\ results' = Append(results, MissingResult(glb_files[idx]))
    /\ idx' = NextEntry(idx)
    /\ UNCHANGED <<script, pc, output, extractVars, purposeVars>>

\* analyze_glb_animations.py lines 140-153: the file exists and is analyzed
ReportAnalyze ==
    /\ script = "report" /\ pc = "loop" /\ idx <= Len(glb_files)
    /\ \E file \in MainFiles :
          /\ file.exists
          /\ disk' = Append(disk, file)
          /\ results' = Append(results, report_analyze_glb_animations(glb_files[idx], file))
    /\ idx' = NextEntry(idx)
    /\ UNCHANGED <<script, pc, output, extractVars, purposeVars>>

\* analyze_glb_animations.py lines 155-207: the report and the summary table
ReportPrint ==
    /\ script = "report" /\ pc = "loop" /\ idx > Len(glb_files)
    /\ output' = Some([blocks |-> [k \in 1..Len(results) |-> ReportBlock(results[k])],
                       table |-> [k \in 1..Len(results) |-> SummaryRow(results[k])]])
    /\ pc' = "done"
    /\ UNCHANGED <<script, idx, disk, results, extractVars, purposeVars>>

\* export_animations_json.py lines 94-95: the file does not exist, nothing is recorded
ExportSkip ==
    /\ script = "export" /\ pc = "loop" /\ idx <= Len(glb_files)
    /\ disk' = Append(disk, Missing)
    /\ idx' = NextEntry(idx)
    /\ UNCHANGED <<script, pc, results, output, extractVars, purposeVars>>

\* export_animations_json.py lines 94-98: the file exists and is analyzed
ExportAnalyze ==
    /\ script = "export" /\ pc = "loop" /\ idx <= Len(glb_files)
    /\ \E file \in MainFiles :
          /\ file.exists
          /\ disk' = Append(disk, file)
          /\ results' = DictSet(results, PathStem(glb_files[idx]),
                                export_analyze_glb_animations(glb_files[idx], file))
    /\ idx' = NextEntry(idx)
    /\ UNCHANGED <<script, pc, output, extractVars, purposeVars>>

\* export_animations_json.py lines 100-105: json.dump of the dict, whose structure
\* (keys in insertion order, lists, numbers, null for None) the document keeps
ExportDump ==
    /\ script = "export" /\ pc = "loop" /\ idx > Len(glb_files)
    /\ output' = Some(results)
    /\ pc' = "done"
    /\ UNCHANGED <<script, idx, disk, results, extractVars, purposeVars>>

Next ==
    \/ ImportOk
    \/ ImportError
    \/ ReportMissing
    \/ ReportAnalyze
    \/ ReportPrint
    \/ ExportSkip
    \/ ExportAnalyze
    \/ ExportDump

Spec == Init /\ [][Next]_vars

\* a sequential program takes its next step whenever it has one
FairSpec == Init /\ [][Next]_vars /\ WF_vars(Next)

-----------------------------------------------------------------------------
(* Both extractors on one file: SpecExtract.                               *)

ExtractInit ==
    /\ gltf_in \in ExtFiles
    /\ rep_out = None
    /\ exp_out = None
    /\ MainIdle
    /\ PurposeIdle

\* analyze_glb_animations.py lines 16-91
RunReportExtractor ==
    /\ rep_out = None
    /\ rep_out' = Some(report_analyze_glb_animations(glb_files[1], gltf_in))
    /\ UNCHANGED <<gltf_in, exp_out, mainVars, purposeVars>>

\* export_animations_json.py lines 15-80
RunExportExtractor ==
    /\ exp_out = None
    /\ exp_out' = Some(export_analyze_glb_animations(glb_files[1], gltf_in))
    /\ UNCHANGED <<gltf_in, rep_out, mainVars, purposeVars>>

ExtractNext == RunReportExtractor \/ RunExportExtractor

SpecExtract == ExtractInit /\ [][ExtractNext]_vars

-----------------------------------------------------------------------------
(* The classifier on one name and duration: SpecPurpose.                   *)

PurposeInit ==
    /\ name_in \in Names
    /\ duration_in \in Durations
    /\ purpose_out = None
    /\ MainIdle
    /\ ExtractIdle

\* analyze_glb_animations.py lines 93-125
Classify ==
    /\ purpose_out = None
    /\ purpose_out' = Some(guess_animation_purpose(name_in, duration_in))
    /\ UNCHANGED <<name_in, duration_in, mainVars, extractVars>>

PurposeNext == Classify

SpecPurpose == PurposeInit /\ [][PurposeNext]_vars

-----------------------------------------------------------------------------
(* Properties of the extractors, checked under SpecExtract.                *)

\* the results the extractors have returned so far
Outs == rep_out \cup exp_out

\* a "list or None" as a sequence
ListOf(o) == IF o = None THEN <<>> ELSE Get(o)

NoDuplicates(l) == \A j, k \in 1..Len(l) : j # k => l[j] # l[k]

SetMax(S) == CHOOSE m \in S : \A x \in S : x <= m

\* the positions of the clip's channels whose sampler index lies in
\* 0..len(samplers)-1, whose sampler's input lies in 0..len(accessors)-1 and whose
\* accessor has a non-empty max array
Contributing(clip, accessors) ==
    {k \in 1..Len(ListOf(clip.channels)) :
        LET ch == ListOf(clip.channels)[k]
            smp == ListOf(clip.samplers)
        IN /\ ch.sampler # None
           /\ Get(ch.sampler) \in 0..(Len(smp) - 1)
           /\ smp[Get(ch.sampler) + 1].input # None
           /\ Get(smp[Get(ch.sampler) + 1].input) \in 0..(Len(accessors) - 1)
           /\ Len(ListOf(accessors[Get(smp[Get(ch.sampler) + 1].input) + 1].max)) > 0}

\* the max[0] the channel at position k of the clip resolves to
TimeOf(clip, accessors, k) ==
    LET ch == ListOf(clip.channels)[k]
        smp == ListOf(clip.samplers)
    IN ListOf(accessors[Get(smp[Get(ch.sampler) + 1].input) + 1].max)[1]

MaxTimes(clip, accessors) ==
    {TimeOf(clip, accessors, k) : k \in Contributing(clip, accessors)}

\* the duration the clip should be given: the largest contributing maximum when
\* there is one and it is positive, None otherwise
ExpectedDuration(clip, accessors) ==
    IF MaxTimes(clip, accessors) # {} /\ SetMax(MaxTimes(clip, accessors)) > 0
    THEN Some(SetMax(MaxTimes(clip, accessors)))
    ELSE None

\* every sampler index and input-accessor index of the clip is absent or >= 0
NonNegativeIndices(clip) ==
    /\ \A k \in 1..Len(ListOf(clip.channels)) :
          ListOf(clip.channels)[k].sampler = None \/ Get(ListOf(clip.channels)[k].sampler) >= 0
    /\ \A k \in 1..Len(ListOf(clip.samplers)) :
          ListOf(clip.samplers)[k].input = None \/ Get(ListOf(clip.samplers)[k].input) >= 0

InClips == gltf_in.gltf.animations
InAccessors == gltf_in.gltf.accessors

\* C1: for every summarised clip whose sampler and input-accessor indices are absent
\* or >= 0, in either script, duration is the maximum of the contributing accessor
\* maxima when there is one and it is positive, and absent (never 0) otherwise.
C1_DurationIsMaximum ==
    \A r \in Outs :
        \A i \in 1..Len(r.animations) :
            NonNegativeIndices(InClips[i]) =>
                /\ r.animations[i].duration = ExpectedDuration(InClips[i], InAccessors)
                /\ r.animations[i].duration # Some(0)

\* C1 witness: both extractors summarised a clip whose channels resolve to two
\* different maxima, the first channel's being the smaller one
C1_Witness ==
    /\ rep_out # None /\ exp_out # None
    /\ Len(InClips) = 1
    /\ NonNegativeIndices(InClips[1])
    /\ Cardinality(MaxTimes(InClips[1], InAccessors)) = 2
    /\ 1 \in Contributing(InClips[1], InAccessors)
    /\ TimeOf(InClips[1], InAccessors, 1) < SetMax(MaxTimes(InClips[1], InAccessors))
    /\ \A r \in Outs : Len(r.animations) = 1
                       /\ r.animations[1].duration = Some(SetMax(MaxTimes(InClips[1], InAccessors)))

\* C10: a channel whose sampler index, or whose sampler's input-accessor index, is
\* absent or outside the list (negative indices included) is skipped: extraction of a
\* loadable file does not fail and only channels with both indices inside their lists
\* contribute to the duration.
C10_OutOfRangeSkipped ==
    \A r \in Outs :
        gltf_in.load_error = None =>
            /\ r.error = None
            /\ \A i \in 1..Len(r.animations) :
                  r.animations[i].duration = ExpectedDuration(InClips[i], InAccessors)

\* C7: every target node and every target path a channel references is in the clip's
\* target_nodes and animation_types, also for a clip whose sampler list is empty or
\* absent.
C7_TargetsRecorded ==
    \A r \in Outs :
        \A i \in 1..Len(r.animations) :
            \A k \in 1..Len(ListOf(InClips[i].channels)) :
                LET ch == ListOf(InClips[i].channels)[k]
                IN /\ (ch.target # None /\ Get(ch.target).node # None)
                        => Get(Get(ch.target).node) \in ListToSet(r.animations[i].target_nodes)
                   /\ (ch.target # None /\ Get(ch.target).path # None)
                        => Get(Get(ch.target).path) \in ListToSet(r.animations[i].animation_types)

\* C8: target_nodes and animation_types of every summary hold no entry twice.
C8_NoDuplicates ==
    \A r \in Outs :
        \A i \in 1..Len(r.animations) :
            /\ NoDuplicates(r.animations[i].target_nodes)
            /\ NoDuplicates(r.animations[i].animation_types)

\* C8 witness: both extractors summarised a clip two of whose channels reference the
\* same node and the same path
C8_Witness ==
    /\ rep_out # None /\ exp_out # None
    /\ \A r \in Outs : Len(r.animations) = 1 /\ Len(r.animations[1].target_nodes) > 0
                       /\ Len(r.animations[1].animation_types) > 0
    /\ \E j, k \in 1..Len(ListOf(InClips[1].channels)) :
          /\ j # k
          /\ ListOf(InClips[1].channels)[j].target # None
          /\ Get(ListOf(InClips[1].channels)[j].target).node # None
          /\ Get(ListOf(InClips[1].channels)[j].target).path # None
          /\ ListOf(InClips[1].channels)[j].target = ListOf(InClips[1].channels)[k].target

SameAnimInfo(a, b) ==
    /\ a.index = b.index
    /\ a.name = b.name
    /\ a.channels = b.channels
    /\ a.samplers = b.samplers
    /\ a.duration = b.duration
    /\ ListToSet(a.target_nodes) = ListToSet(b.target_nodes)
    /\ ListToSet(a.animation_types) = ListToSet(b.animation_types)

SameResult(a, b) ==
    /\ a.file_path = b.file_path
    /\ a.file_name = b.file_name
    /\ a.total_animations = b.total_animations
    /\ a.error = b.error
    /\ Len(a.animations) = Len(b.animations)
    /\ \A i \in 1..Len(a.animations) : SameAnimInfo(a.animations[i], b.animations[i])

\* C9: on the same file the extractor of the report script and the extractor of the
\* export script return the same FileResult, target_nodes and animation_types compared
\* as sets.
C9_ExtractorsEquivalent ==
    (rep_out # None /\ exp_out # None) => SameResult(Get(rep_out), Get(exp_out))

\* C9 witness: both extractors returned a summary of an unnamed clip with a duration
\* and a target node
C9_Witness ==
    /\ rep_out # None /\ exp_out # None
    /\ Len(InClips) = 1 /\ InClips[1].name = None
    /\ Len(Get(rep_out).animations) = 1
    /\ Get(rep_out).animations[1].duration # None
    /\ Len(Get(exp_out).animations[1].target_nodes) > 0

-----------------------------------------------------------------------------
(* Properties of the classifier, checked under SpecPurpose.                *)

\* the keyword groups in their fixed order, with their labels
PurposeGroups == <<
    [keywords |-> {"idle", "rest", "stand", "default"}, label |-> "Idle/Rest animation"],
    [keywords |-> {"walk", "run", "move", "locomotion"}, label |-> "Movement animation"],
    [keywords |-> {"attack", "bite", "strike", "fight"}, label |-> "Attack animation"],
    [keywords |-> {"death", "die", "dead"}, label |-> "Death animation"],
    [keywords |-> {"jump", "leap", "hop"}, label |-> "Jump animation"],
    [keywords |-> {"fly", "flight", "hover"}, label |-> "Flying animation"],
    [keywords |-> {"eat", "feed"}, label |-> "Eating animation"],
    [keywords |-> {"turn", "rotate"}, label |-> "Turning animation"],
    [keywords |-> {"take_damage", "hit", "hurt"}, label |-> "Damage/Hit animation"],
    [keywords |-> {"celebrate", "victory", "win"}, label |-> "Victory/Celebration animation"] >>

\* the groups a keyword of which occurs in the name, letter case ignored
MatchingGroups(name) ==
    LET lowered == Lower(name)
    IN {g \in 1..Len(PurposeGroups) :
           \E keyword \in PurposeGroups[g].keywords : Contains(lowered, keyword)}

SetMin(S) == CHOOSE m \in S : \A x \in S : m <= x

\* C5: a name that contains a keyword of some group is given the label of the
\* earliest such group, whatever the duration.
C5_FirstGroupWins ==
    purpose_out # None =>
        LET matching == MatchingGroups(name_in)
        IN matching # {} => Get(purpose_out) = PurposeGroups[SetMin(matching)].label

\* C5 witness: a name with capital letters that matches the death group and the eat
\* group was classified as a death animation, with a duration that would by itself
\* make it a short one
C5_Witness ==
    /\ purpose_out = Some("Death animation")
    /\ {4, 7} \subseteq MatchingGroups(name_in)
    /\ Lower(name_in) # name_in
    /\ duration_in = Some(5)

-----------------------------------------------------------------------------
(* Properties of the runs of main(), checked under Spec and FairSpec.      *)

\* the FileResults the run has collected
Collected ==
    IF script = "report" THEN ListToSet(results)
    ELSE {results[j].value : j \in 1..Len(results)}

NotFound(file_path) ==
    [file_path |-> file_path, file_name |-> PathName(file_path),
     animations |-> <<>>, total_animations |-> 0,
     error |-> Some("File not found: " \o file_path)]

ResultsFor(k) == {r \in Collected : r.file_path = glb_files[k]}

\* C3: every FileResult has total_animations = len(animations); with an error set it
\* has no animations and total_animations 0, also when the exception came after some
\* clips were summarised; a loaded file without clips gives 0, no animations, no error.
C3_ResultShape ==
    /\ \A r \in Collected :
          /\ r.total_animations = Len(r.animations)
          /\ r.error # None => (r.animations = <<>> /\ r.total_animations = 0)
    /\ \A k \in 1..Len(disk) :
          (disk[k].exists /\ disk[k].load_error = None /\ Len(disk[k].gltf.animations) = 0)
              => /\ ResultsFor(k) # {}
                 /\ \A r \in ResultsFor(k) :
                       r.total_animations = 0 /\ r.animations = <<>> /\ r.error = None

\* C3 witness: a finished run one of whose files raised in its second clip, after the
\* first clip was summarised, and another of whose files has no clips
C3_Witness ==
    /\ pc = "done"
    /\ \E k \in 1..Len(disk) :
          /\ disk[k].exists
          /\ disk[k].gltf.animations = <<WalkClip, BadIndexClip>>
          /\ \E r \in ResultsFor(k) : r.error = Some(IndexError)
    /\ \E k \in 1..Len(disk) :
          disk[k].exists /\ disk[k].load_error = None /\ Len(disk[k].gltf.animations) = 0

\* the clip makes list indexing raise: a sampler index before the start of the sampler
\* list, or a resolved sampler whose input lies before the start of the accessor list
ClipRaises(clip, accessors) ==
    /\ Truthy(clip.channels) /\ Truthy(clip.samplers)
    /\ \E k \in 1..Len(Get(clip.channels)) :
          LET ch == Get(clip.channels)[k]
              smp == Get(clip.samplers)
          IN /\ ch.sampler # None
             /\ \/ Get(ch.sampler) < -Len(smp)
                \/ /\ Get(ch.sampler) < Len(smp)
                   /\ PyIndex(smp, Get(ch.sampler)).input # None
                   /\ Get(PyIndex(smp, Get(ch.sampler)).input) < -Len(accessors)

\* the file is missing, or loading or extraction raises
FileFails(file) ==
    \/ ~file.exists
    \/ file.load_error # None
    \/ \E i \in 1..Len(file.gltf.animations) :
          ClipRaises(file.gltf.animations[i], file.gltf.accessors)

\* the paths of the files found on disk so far, in list order
RECURSIVE ExistingPaths(_)
ExistingPaths(k) ==
    IF k = 0 THEN <<>>
    ELSE IF disk[k].exists THEN Append(ExistingPaths(k - 1), glb_files[k])
    ELSE ExistingPaths(k - 1)

\* every file of the list was handled, and each one's failure is in its own result only
AllHandled ==
    /\ Len(disk) = Len(glb_files)
    /\ IF script = "report"
       THEN /\ Len(results) = Len(glb_files)
            /\ \A k \in 1..Len(results) :
                  /\ results[k].file_path = glb_files[k]
                  /\ (results[k].error # None) <=> FileFails(disk[k])
       ELSE LET paths == ExistingPaths(Len(disk))
            IN /\ Len(results) = Len(paths)
               /\ \A j \in 1..Len(results) :
                     /\ results[j].key = PathStem(paths[j])
                     /\ results[j].value.file_path = paths[j]
                     /\ \A k \in 1..Len(disk) :
                           glb_files[k] = paths[j] =>
                               ((results[j].value.error # None) <=> FileFails(disk[k]))

====
